---- MODULE Spec2Model ----
(***************************************************************************)
(* A model of the lock-free MPSC queues of lock-free-mpsc:                 *)
(*   - the slot state machine            (src/src/mpsc/slot.rs)            *)
(*   - the bounded ring-buffer queue     (src/src/mpsc/bounded_mpsc)       *)
(*   - the unbounded segmented queue     (src/src/mpsc/unbounded_mpsc)     *)
(* Every load, store and compare_exchange of a location that several       *)
(* threads access is one step of the thread that executes it; what a       *)
(* thread computes locally, and its accesses to locations no other thread  *)
(* accesses at that time, are folded into the neighbouring step.           *)
(***************************************************************************)
EXTENDS Integers, Sequences, FiniteSets, TLC

(***************************************************************************)
(* Bounds of the model.                                                    *)
(***************************************************************************)
\* producer threads of the concurrent specifications
NProducers == 2
\* values each producer pushes in the concurrent specifications
ItemsPerThread == 2
\* the bounded queue is built with a capacity in 0..MaxCapacity
MaxCapacity == 2
\* push calls made by the single thread of the sequential specifications
MaxSeqPushes == 6
\* largest array length of the cursor-advance specification
MaxRing == 8
\* wait calls made on one LocalBackoff
MaxWaits == 20
\* width of usize in the model (the code's usize has 64 bits)
UsizeBits == 6
\* slots of a segment in the model (the code's SEGMENT_SIZE is 128)
SEGMENT_SIZE == 2
\* segments the model can allocate
MaxSegments == 7

Producers == 1..NProducers
Capacities == 0..MaxCapacity

\* slot states, src/src/mpsc/slot.rs:105-107
READY == 0
RESERVED == 1
REGISTERED == 2

\* the content of a slot's MaybeUninit payload before any write
Uninit == 0

\* the i-th value (1-based) pushed by producer p: disjoint between producers
Item(p, i) == (p - 1) * ItemsPerThread + i
AllItems == {Item(p, i) : p \in Producers, i \in 1..ItemsPerThread}

NoRet == [kind |-> "none", val |-> 0]
RetOk == [kind |-> "Ok", val |-> 0]
RetErr(v) == [kind |-> "Err", val |-> v]
RetNone == [kind |-> "None", val |-> 0]
RetSome(v) == [kind |-> "Some", val |-> v]
RetPanic == [kind |-> "panic", val |-> 0]

(***************************************************************************)
(* usize arithmetic.                                                       *)
(***************************************************************************)
UsizeMod == 2 ^ UsizeBits

RECURSIVE BitAnd(_, _)
BitAnd(a, b) ==
    IF a = 0 \/ b = 0 THEN 0
    ELSE (a % 2) * (b % 2) + 2 * BitAnd(a \div 2, b \div 2)

\* transmute::<isize, usize>(-((cond) as isize)): all ones when cond, else 0
MaskOf(cond) == IF cond THEN UsizeMod - 1 ELSE 0

\* raw_mpsc.rs:60-65: next = i + 1; next & mask(next < n)
BoundedNoWrap(i, n) == (i + 1) % UsizeMod
BoundedSkipsLast(i, n) ==
    BitAnd((i + 1) % UsizeMod, MaskOf((i + 1) % UsizeMod < n - 1))
BoundedWrapLate(i, n) ==
    BitAnd((i + 1) % UsizeMod, MaskOf((i + 1) % UsizeMod <= n))
Bounded(i, n) == BitAnd((i + 1) % UsizeMod, MaskOf((i + 1) % UsizeMod < n))

\* raw_mpsc.rs:67: push finds the queue full when the wrapped successor of
\* the head it read is the tail
QueueFullUnlessEmpty(curr_head, t, n) == Bounded(curr_head, n) = t /\ curr_head # t
QueueFull(curr_head, t, n) == Bounded(curr_head, n) = t

VARIABLES
    \* ---- bounded queue (bounded_mpsc/raw_mpsc.rs) ----
    capacity,        \* the argument of RawMpsc::new
    next_head,       \* RawMpsc.next_head
    tail,            \* RawMpsc.tail
    active_threads,  \* RawMpsc.global_wait.active_threads
    slot_state,      \* slots[i].state, i in 0..capacity
    slot_value,      \* slots[i].value
    dropped,         \* the queue has been dropped
    \* producers of the bounded queue
    ppc,             \* position of each producer inside push
    p_curr_head,     \* push's local curr_head
    p_done,          \* number of this producer's pushes that returned Ok
    push_ret,        \* what this producer's last push call returned
    \* consumer of the bounded queue
    cpc,             \* position of the consumer inside pop
    c_tail,          \* pop's local tail
    c_data,          \* the payload pop has read
    pop_ret,         \* what the last pop call returned
    \* history
    claimed,         \* values in the order of their successful next_head CAS
    popped,          \* values in the order pop returned them
    drained,         \* a pop found nothing after every push had returned Ok
    \* ---- one thread driving the bounded queue ----
    seq_n,           \* push calls made so far; the k-th call pushes the value k
    last_op,         \* the last call made and what it returned
    released,        \* the values Drop has taken out of their slots
    first_pop_at,    \* push calls made before the first pop call, -1 if none yet
    \* ---- backoff (backoff.rs, backoff/local_backoff.rs) ----
    spins,           \* LocalBackoff.spins
    l_spun,          \* iterations the last LocalBackoff::wait call spun for
    l_waits,         \* wait calls made on the LocalBackoff so far
    l_fresh,         \* the LocalBackoff is as new() made it: no reset() yet
    g_spin,          \* outcome of the last GlobalBackoff call that spins
    \* ---- history of one Slot ----
    h_registered,    \* the payload the slot held at unset's successful CAS
    h_returned,      \* how many successful unset calls returned each value
    \* ---- unbounded queue (unbounded_mpsc/raw_mpsc.rs) ----
    head,            \* RawMpsc.head: the segment being drained
    u_tail,          \* RawMpsc.tail: the segment accepting writes
    segment_allocation_pending,
    segments,        \* the heap: every Segment allocated so far, by address
    n_segments,      \* number of segments allocated so far
    freed,           \* addresses of the segments the consumer has freed
    \* producers of the unbounded queue
    upc,             \* position of each producer inside push
    u_segment,       \* push's local segment (the tail it loaded)
    u_curr_head,     \* segment_push's local curr_head
    u_new_block,     \* push's local new_block
    u_done,          \* number of this producer's pushes that returned
    \* consumer of the unbounded queue
    ucpc,            \* position of the consumer inside pop
    uc_head,         \* pop's local head
    uc_tail,         \* segment_pop's local tail
    uc_next,         \* pop's local next
    upop_ret,        \* what the last pop call returned
    \* history
    upopped,         \* values in the order pop returned them
    udrained,        \* a pop found nothing after every push had returned
    uaf,             \* some thread has accessed a freed segment
    aborted          \* the process was killed by an invalid memory access

bvars == <<capacity, next_head, tail, active_threads, slot_state, slot_value,
           dropped, ppc, p_curr_head, p_done, push_ret, cpc, c_tail, c_data,
           pop_ret, claimed, popped, drained>>

hvars == <<h_registered, h_returned>>
kvars == <<spins, l_spun, l_waits, l_fresh, g_spin, hvars>>
svars == <<seq_n, last_op, released, first_pop_at, kvars>>

uvars == <<head, u_tail, segment_allocation_pending, segments, n_segments,
           freed, upc, u_segment, u_curr_head, u_new_block, u_done, ucpc,
           uc_head, uc_tail, uc_next, upop_ret, upopped, udrained, uaf,
           aborted>>

vars == <<bvars, svars, uvars>>

\* GlobalBackoff::reg_wait, backoff.rs:56-59: active_threads.fetch_add(1)
RegWait(n) == (n + 1) % UsizeMod

\* GlobalBackoff::de_reg, backoff.rs:66-68: active_threads.fetch_sub(1)
DeRegSkipped(n) == n
DeReg(n) == (n + UsizeMod - 1) % UsizeMod

SlotCount == capacity + 1

(***************************************************************************)
(* Slot (src/src/mpsc/slot.rs), as functions on the state and payload of   *)
(* one slot.                                                               *)
(***************************************************************************)
\* Slot::set's compare_exchange(READY, RESERVED) succeeds
SetCasOkUnlessRegistered(st) == st # REGISTERED
SetCasOk(st) == st = READY
\* Slot::unset's compare_exchange(REGISTERED, READY) succeeds
UnsetCasOkUnlessReady(st) == st # READY
UnsetCasOk(st) == st = REGISTERED

(***************************************************************************)
(* RawMpsc::new(capacity)                                                  *)
(***************************************************************************)
BFields ==
    /\ next_head = 0
    /\ tail = 0
    /\ active_threads = 0
    /\ slot_state = [i \in 0..MaxCapacity |-> READY]
    /\ slot_value = [i \in 0..MaxCapacity |-> Uninit]
    /\ dropped = FALSE
    /\ ppc = [p \in Producers |-> "idle"]
    /\ p_curr_head = [p \in Producers |-> 0]
    /\ p_done = [p \in Producers |-> 0]
    /\ push_ret = [p \in Producers |-> NoRet]
    /\ cpc = "idle"
    /\ c_tail = 0
    /\ c_data = Uninit
    /\ pop_ret = NoRet
    /\ claimed = <<>>
    /\ popped = <<>>
    /\ drained = FALSE
    /\ seq_n = 0
    /\ last_op = [op |-> "new", ret |-> NoRet]
    /\ released = {}
    /\ first_pop_at = -1

\* a segment, segment_arr.rs:22-39: cursors 0, every slot READY, next null
NullPtr == 0
NewSegment ==
    [next_head |-> 0, tail |-> 0,
     state |-> [i \in 0..(SEGMENT_SIZE - 1) |-> READY],
     value |-> [i \in 0..(SEGMENT_SIZE - 1) |-> Uninit],
     next |-> NullPtr]

\* RawMpsc::new() of the unbounded queue, unbounded_mpsc/raw_mpsc.rs:19-29
UFields ==
    /\ head = 1
    /\ u_tail = 1
    /\ segment_allocation_pending = FALSE
    /\ segments = [a \in 1..MaxSegments |-> NewSegment]
    /\ n_segments = 1
    /\ freed = {}
    /\ upc = [p \in Producers |-> "idle"]
    /\ u_segment = [p \in Producers |-> NullPtr]
    /\ u_curr_head = [p \in Producers |-> 0]
    /\ u_new_block = [p \in Producers |-> NullPtr]
    /\ u_done = [p \in Producers |-> 0]
    /\ ucpc = "idle"
    /\ uc_head = NullPtr
    /\ uc_tail = 0
    /\ uc_next = NullPtr
    /\ upop_ret = NoRet
    /\ upopped = <<>>
    /\ udrained = FALSE
    /\ uaf = FALSE
    /\ aborted = FALSE

\* GlobalBackoff::new, backoff.rs:42-46 (active_threads = 0 is in BFields), and
\* LocalBackoff::new, local_backoff.rs:24-28: spins = 0; nothing has spun yet
NoSpin == [kind |-> "none", iters |-> 0]
KFields ==
    /\ spins = 0
    /\ l_spun = 0
    /\ l_waits = 0
    /\ l_fresh = TRUE
    /\ g_spin = NoSpin
    /\ h_registered = Uninit
    /\ h_returned = [v \in AllItems |-> 0]

\* a bounded queue of any capacity in 0..MaxCapacity
BInit == capacity \in Capacities /\ BFields /\ UFields /\ KFields

\* an unbounded queue
UInit == capacity = 0 /\ BFields /\ UFields /\ KFields

(***************************************************************************)
(* RawMpsc::push of the bounded queue, bounded_mpsc/raw_mpsc.rs:56-86,     *)
(* one action per atomic access.                                           *)
(***************************************************************************)
ProducersDone == \A p \in Producers : p_done[p] = ItemsPerThread

\* the value producer p is pushing (or will push next)
Data(p) == Item(p, p_done[p] + 1)

\* line 57: push is called; reg_wait's fetch_add(1)
PushCall(p) ==
    /\ ~dropped
    /\ ppc[p] = "idle"
    /\ p_done[p] < ItemsPerThread
    /\ active_threads' = RegWait(active_threads)
    /\ ppc' = [ppc EXCEPT ![p] = "load_head"]
    /\ push_ret' = [push_ret EXCEPT ![p] = NoRet]
    /\ UNCHANGED <<svars, uvars>>
    /\ UNCHANGED <<capacity, next_head, tail, slot_state, slot_value, dropped,
                   p_curr_head, p_done, cpc, c_tail, c_data, pop_ret,
                   claimed, popped, drained>>

\* line 59: curr_head = next_head.load
PushLoadHead(p) ==
    /\ ppc[p] = "load_head"
    /\ p_curr_head' = [p_curr_head EXCEPT ![p] = next_head]
    /\ ppc' = [ppc EXCEPT ![p] = "load_tail"]
    /\ UNCHANGED <<svars, uvars>>
    /\ UNCHANGED <<capacity, next_head, tail, active_threads, slot_state,
                   slot_value, dropped, p_done, push_ret, cpc, c_tail, c_data,
                   pop_ret, claimed, popped, drained>>

\* line 67: next_head_bounded != tail.load
PushLoadTail(p) ==
    /\ ppc[p] = "load_tail"
    /\ ppc' = [ppc EXCEPT ![p] =
                 IF QueueFull(p_curr_head[p], tail, SlotCount)
                 THEN "full" ELSE "cas"]
    /\ UNCHANGED <<svars, uvars>>
    /\ UNCHANGED <<capacity, next_head, tail, active_threads, slot_state,
                   slot_value, dropped, p_curr_head, p_done, push_ret, cpc,
                   c_tail, c_data, pop_ret, claimed, popped, drained>>

\* lines 68-77: next_head.compare_exchange(curr_head, next_head_bounded);
\* on failure global_wait.wait(), which only reads active_threads and spins
PushCas(p) ==
    /\ ppc[p] = "cas"
    /\ IF next_head = p_curr_head[p]
       THEN /\ next_head' = Bounded(p_curr_head[p], SlotCount)
            /\ claimed' = Append(claimed, Data(p))
            /\ ppc' = [ppc EXCEPT ![p] = "de_reg"]
       ELSE /\ ppc' = [ppc EXCEPT ![p] = "load_head"]
            /\ UNCHANGED <<next_head, claimed>>
    /\ UNCHANGED <<svars, uvars>>
    /\ UNCHANGED <<capacity, tail, active_threads, slot_state, slot_value,
                   dropped, p_curr_head, p_done, push_ret, cpc, c_tail, c_data,
                   pop_ret, popped, drained>>

\* lines 73-74: de_reg's fetch_sub(1) after the CAS succeeded
PushDeReg(p) ==
    /\ ppc[p] = "de_reg"
    /\ active_threads' = DeReg(active_threads)
    /\ ppc' = [ppc EXCEPT ![p] = "set_cas"]
    /\ UNCHANGED <<svars, uvars>>
    /\ UNCHANGED <<capacity, next_head, tail, slot_state, slot_value, dropped,
                   p_curr_head, p_done, push_ret, cpc, c_tail, c_data, pop_ret,
                   claimed, popped, drained>>

\* lines 79-80: the queue is full: de_reg's fetch_sub(1); return Err(data)
PushFull(p) ==
    /\ ppc[p] = "full"
    /\ active_threads' = DeReg(active_threads)
    /\ push_ret' = [push_ret EXCEPT ![p] = RetErr(Data(p))]
    /\ ppc' = [ppc EXCEPT ![p] = "idle"]
    /\ UNCHANGED <<svars, uvars>>
    /\ UNCHANGED <<capacity, next_head, tail, slot_state, slot_value, dropped,
                   p_curr_head, p_done, cpc, c_tail, c_data, pop_ret, claimed,
                   popped, drained>>

\* line 84, slot.rs:44-47: the slot's compare_exchange(READY, RESERVED);
\* set returns Err when it fails and push's unwrap panics
PushSetCas(p) ==
    /\ ppc[p] = "set_cas"
    /\ IF SetCasOk(slot_state[p_curr_head[p]])
       THEN /\ slot_state' = [slot_state EXCEPT ![p_curr_head[p]] = RESERVED]
            /\ ppc' = [ppc EXCEPT ![p] = "set_write"]
            /\ UNCHANGED push_ret
       ELSE /\ ppc' = [ppc EXCEPT ![p] = "panicked"]
            /\ push_ret' = [push_ret EXCEPT ![p] = RetPanic]
            /\ UNCHANGED slot_state
    /\ UNCHANGED <<svars, uvars>>
    /\ UNCHANGED <<capacity, next_head, tail, active_threads, slot_value,
                   dropped, p_curr_head, p_done, cpc, c_tail, c_data, pop_ret,
                   claimed, popped, drained>>

\* slot.rs:49, 86-89: unchecked_set writes the payload
PushSetWrite(p) ==
    /\ ppc[p] = "set_write"
    /\ slot_value' = [slot_value EXCEPT ![p_curr_head[p]] = Data(p)]
    /\ ppc' = [ppc EXCEPT ![p] = "set_store"]
    /\ UNCHANGED <<svars, uvars>>
    /\ UNCHANGED <<capacity, next_head, tail, active_threads, slot_state,
                   dropped, p_curr_head, p_done, push_ret, cpc, c_tail, c_data,
                   pop_ret, claimed, popped, drained>>

\* slot.rs:50-51: state.store(REGISTERED); set and push return Ok(())
PushSetStore(p) ==
    /\ ppc[p] = "set_store"
    /\ slot_state' = [slot_state EXCEPT ![p_curr_head[p]] = REGISTERED]
    /\ push_ret' = [push_ret EXCEPT ![p] = RetOk]
    /\ p_done' = [p_done EXCEPT ![p] = @ + 1]
    /\ ppc' = [ppc EXCEPT ![p] = "idle"]
    /\ UNCHANGED <<svars, uvars>>
    /\ UNCHANGED <<capacity, next_head, tail, active_threads, slot_value,
                   dropped, p_curr_head, cpc, c_tail, c_data, pop_ret, claimed,
                   popped, drained>>

(***************************************************************************)
(* RawMpsc::pop of the bounded queue, bounded_mpsc/raw_mpsc.rs:91-113.     *)
(***************************************************************************)
\* line 92: pop is called; tail = tail.load (only the consumer writes tail)
PopCall ==
    /\ ~dropped
    /\ cpc = "idle"
    /\ c_tail' = tail
    /\ cpc' = "load_head"
    /\ pop_ret' = NoRet
    /\ UNCHANGED <<svars, uvars>>
    /\ UNCHANGED <<capacity, next_head, tail, active_threads, slot_state,
                   slot_value, dropped, ppc, p_curr_head, p_done, push_ret,
                   c_data, claimed, popped, drained>>

\* lines 93-95, 110-112: head = next_head.load; None when tail == head
PopLoadHead ==
    /\ cpc = "load_head"
    /\ IF c_tail # next_head
       THEN /\ cpc' = "unset_cas"
            /\ UNCHANGED <<pop_ret, drained>>
       ELSE /\ cpc' = "idle"
            /\ pop_ret' = RetNone
            /\ drained' = (drained \/ ProducersDone)
    /\ UNCHANGED <<svars, uvars>>
    /\ UNCHANGED <<capacity, next_head, tail, active_threads, slot_state,
                   slot_value, dropped, ppc, p_curr_head, p_done, push_ret,
                   c_tail, c_data, claimed, popped>>

\* line 96, slot.rs:68-71: the slot's compare_exchange(REGISTERED, READY);
\* lines 105-108: None when it fails
PopUnsetCas ==
    /\ cpc = "unset_cas"
    /\ IF UnsetCasOk(slot_state[c_tail])
       THEN /\ slot_state' = [slot_state EXCEPT ![c_tail] = READY]
            /\ cpc' = "unset_read"
            /\ UNCHANGED <<pop_ret, drained>>
       ELSE /\ cpc' = "idle"
            /\ pop_ret' = RetNone
            /\ drained' = (drained \/ ProducersDone)
            /\ UNCHANGED slot_state
    /\ UNCHANGED <<svars, uvars>>
    /\ UNCHANGED <<capacity, next_head, tail, active_threads, slot_value,
                   dropped, ppc, p_curr_head, p_done, push_ret, c_tail, c_data,
                   claimed, popped>>

\* slot.rs:73, 98-101: unchecked_unset reads the payload
PopUnsetRead ==
    /\ cpc = "unset_read"
    /\ c_data' = slot_value[c_tail]
    /\ cpc' = "store_tail"
    /\ UNCHANGED <<svars, uvars>>
    /\ UNCHANGED <<capacity, next_head, tail, active_threads, slot_state,
                   slot_value, dropped, ppc, p_curr_head, p_done, push_ret,
                   c_tail, pop_ret, claimed, popped, drained>>

\* lines 98-103: tail.store(next_tail_bounded); return Some(data)
PopStoreTail ==
    /\ cpc = "store_tail"
    /\ tail' = Bounded(c_tail, SlotCount)
    /\ pop_ret' = RetSome(c_data)
    /\ popped' = Append(popped, c_data)
    /\ cpc' = "idle"
    /\ UNCHANGED <<svars, uvars>>
    /\ UNCHANGED <<capacity, next_head, active_threads, slot_state, slot_value,
                   dropped, ppc, p_curr_head, p_done, push_ret, c_tail, c_data,
                   claimed, drained>>

BNext ==
    \/ \E p \in Producers :
          \/ PushCall(p)
          \/ PushLoadHead(p)
          \/ PushLoadTail(p)
          \/ PushCas(p)
          \/ PushDeReg(p)
          \/ PushFull(p)
          \/ PushSetCas(p)
          \/ PushSetWrite(p)
          \/ PushSetStore(p)
    \/ PopCall
    \/ PopLoadHead
    \/ PopUnsetCas
    \/ PopUnsetRead
    \/ PopStoreTail

\* N producers and one consumer on one bounded queue, any interleaving
SpecBounded == BInit /\ [][BNext]_vars

(***************************************************************************)
(* Histories of the bounded queue.                                         *)
(***************************************************************************)
SeqToSet(s) == {s[i] : i \in 1..Len(s)}
NoDuplicates(s) == \A i, j \in 1..Len(s) : i # j => s[i] # s[j]

\* the values whose push returned Ok
PushedOk == {Item(p, i) : p \in Producers, i \in 1..ItemsPerThread} \cap
            UNION {{Item(p, i) : i \in 1..p_done[p]} : p \in Producers}

\* C1: once every producer's pushes have returned Ok and the consumer has
\* popped until pop found nothing, the popped values are exactly the values
\* whose push returned Ok, each popped once.
C1_NoLossNoDuplication ==
    drained => /\ SeqToSet(popped) = PushedOk
               /\ NoDuplicates(popped)

(***************************************************************************)
(* One thread driving the bounded queue: each call runs from its first     *)
(* line to its return with no other thread in between, so push's CAS on    *)
(* next_head always succeeds.                                              *)
(***************************************************************************)
\* push, raw_mpsc.rs:56-86 with slot.rs:43-55, on a queue with next_head h,
\* tail t, slot states st, payloads val and n slots
SeqPushOutcomeClaimFirst(h, t, st, val, data, n) ==
    IF QueueFull(h, t, n)
    THEN [next_head |-> Bounded(h, n), slot_state |-> st, slot_value |-> val,
          ret |-> RetErr(data)]
    ELSE IF SetCasOk(st[h])
    THEN [next_head |-> Bounded(h, n),
          slot_state |-> [st EXCEPT ![h] = REGISTERED],
          slot_value |-> [val EXCEPT ![h] = data],
          ret |-> RetOk]
    ELSE [next_head |-> Bounded(h, n), slot_state |-> st, slot_value |-> val,
          ret |-> RetPanic]
SeqPushOutcome(h, t, st, val, data, n) ==
    IF QueueFull(h, t, n)
    THEN [next_head |-> h, slot_state |-> st, slot_value |-> val,
          ret |-> RetErr(data)]
    ELSE IF SetCasOk(st[h])
    THEN [next_head |-> Bounded(h, n),
          slot_state |-> [st EXCEPT ![h] = REGISTERED],
          slot_value |-> [val EXCEPT ![h] = data],
          ret |-> RetOk]
    ELSE [next_head |-> Bounded(h, n), slot_state |-> st, slot_value |-> val,
          ret |-> RetPanic]

\* pop, raw_mpsc.rs:91-113 with slot.rs:67-77
SeqPopOutcomeTailKept(h, t, st, val, n) ==
    IF t # h /\ UnsetCasOk(st[t])
    THEN [tail |-> t, slot_state |-> [st EXCEPT ![t] = READY],
          ret |-> RetSome(val[t])]
    ELSE [tail |-> t, slot_state |-> st, ret |-> RetNone]
SeqPopOutcome(h, t, st, val, n) ==
    IF t # h /\ UnsetCasOk(st[t])
    THEN [tail |-> Bounded(t, n), slot_state |-> [st EXCEPT ![t] = READY],
          ret |-> RetSome(val[t])]
    ELSE [tail |-> t, slot_state |-> st, ret |-> RetNone]

\* the loop of Drop, raw_mpsc.rs:123-134: from curr up to the tail t, unset
\* the slot at curr (ignoring a failed unset) and step curr with wraparound
RECURSIVE DropLoop(_, _, _, _, _, _)
DropLoop(curr, t, st, val, rel, n) ==
    IF curr = t
    THEN [slot_state |-> st, released |-> rel]
    ELSE DropLoop(Bounded(curr, n), t,
                  IF UnsetCasOk(st[curr]) THEN [st EXCEPT ![curr] = READY] ELSE st,
                  val,
                  IF UnsetCasOk(st[curr]) THEN rel \cup {val[curr]} ELSE rel,
                  n)

\* Drop for RawMpsc, raw_mpsc.rs:120-135: the loop starts at next_head
DropOutcome(h, t, st, val, n) == DropLoop(h, t, st, val, {}, n)

SeqPush ==
    /\ ~dropped
    /\ seq_n < MaxSeqPushes
    /\ LET out == SeqPushOutcome(next_head, tail, slot_state, slot_value,
                                 seq_n + 1, SlotCount)
       IN /\ next_head' = out.next_head
          /\ slot_state' = out.slot_state
          /\ slot_value' = out.slot_value
          /\ last_op' = [op |-> "push", ret |-> out.ret]
          /\ claimed' = IF out.ret = RetOk
                        THEN Append(claimed, seq_n + 1) ELSE claimed
    /\ seq_n' = seq_n + 1
    \* reg_wait and de_reg, raw_mpsc.rs:57, 73, 79
    /\ active_threads' = DeReg(RegWait(active_threads))
    /\ UNCHANGED <<capacity, tail, dropped, ppc, p_curr_head, p_done, push_ret,
                   cpc, c_tail, c_data, pop_ret, popped, drained, released,
                   first_pop_at>>
    /\ UNCHANGED <<kvars, uvars>>

SeqPop ==
    /\ ~dropped
    /\ LET out == SeqPopOutcome(next_head, tail, slot_state, slot_value,
                                SlotCount)
       IN /\ tail' = out.tail
          /\ slot_state' = out.slot_state
          /\ last_op' = [op |-> "pop", ret |-> out.ret]
          /\ popped' = IF out.ret.kind = "Some"
                       THEN Append(popped, out.ret.val) ELSE popped
    /\ UNCHANGED <<capacity, next_head, active_threads, slot_value, dropped,
                   ppc, p_curr_head, p_done, push_ret, cpc, c_tail, c_data,
                   pop_ret, claimed, drained, seq_n, released>>
    /\ first_pop_at' = IF first_pop_at = -1 THEN seq_n ELSE first_pop_at
    /\ UNCHANGED <<kvars, uvars>>

SeqDrop ==
    /\ ~dropped
    /\ LET out == DropOutcome(next_head, tail, slot_state, slot_value,
                              SlotCount)
       IN /\ slot_state' = out.slot_state
          /\ released' = out.released
    /\ dropped' = TRUE
    /\ last_op' = [op |-> "drop", ret |-> NoRet]
    /\ UNCHANGED <<capacity, next_head, tail, active_threads, slot_value, ppc,
                   p_curr_head, p_done, push_ret, cpc, c_tail, c_data, pop_ret,
                   claimed, popped, drained, seq_n, first_pop_at>>
    /\ UNCHANGED <<kvars, uvars>>

SNext == SeqPush \/ SeqPop \/ SeqDrop

\* one thread making any sequence of push and pop calls, then dropping
SpecBoundedSeq == BInit /\ [][SNext]_vars

\* the values the queue holds: pushed with Ok and not yet popped
Held == Len(claimed) - Len(popped)

\* a step of SpecBoundedSeq that is a whole push call with data seq_n + 1
IsPushStep == last_op'.op = "push" /\ seq_n' = seq_n + 1
\* a step of SpecBoundedSeq that is a whole pop call
IsPopStep == last_op'.op = "pop" /\ ~dropped'

\* C3: with one thread driving a queue of capacity C, a push returns Ok
\* exactly when fewer than C values are held before it, and Err otherwise.
C3_CapacityBound ==
    [][IsPushStep =>
          /\ (last_op'.ret = RetOk) <=> (Held < capacity)
          /\ (last_op'.ret.kind = "Err") <=> (Held >= capacity)]_vars

\* a queue of capacity C >= 1 was filled, one value was popped, one more push
\* succeeded and the push after it failed
C3_Witness ==
    /\ capacity >= 1
    /\ Len(popped) = 1
    /\ Len(claimed) = capacity + 1
    /\ last_op.op = "push"
    /\ last_op.ret.kind = "Err"

\* C4: with one thread driving the queue, pop returns the values in the
\* order they were pushed (also across the wraparound of next_head and
\* tail), and returns None exactly when no value is held.
C4_FifoSingleThread ==
    [][IsPopStep =>
          /\ (last_op'.ret = RetNone) <=> (Held = 0)
          /\ (last_op'.ret.kind = "Some") <=> (Held > 0)
          /\ Held > 0 => last_op'.ret.val = claimed[Len(popped) + 1]
          /\ popped' = SubSeq(claimed, 1, Len(popped'))]_vars

\* capacity 1: both cursors have wrapped and the fourth value came out
C4_Witness ==
    /\ capacity = 1
    /\ Len(popped) = 4
    /\ popped = claimed
    /\ last_op = [op |-> "pop", ret |-> RetSome(claimed[4])]

\* C6: a push that finds the queue full (capacity values are held) returns
\* Err carrying exactly the value it was given and leaves next_head, tail
\* and every slot's state and payload unchanged.
C6_FullPushChangesNothing ==
    [][(IsPushStep /\ Held >= capacity) =>
          /\ last_op'.ret = RetErr(seq_n + 1)
          /\ UNCHANGED <<next_head, tail, slot_state, slot_value>>]_vars

\* a push was rejected by a full queue of capacity >= 1 whose cursors wrapped
C6_Witness ==
    /\ capacity >= 1
    /\ Held = capacity
    /\ Len(popped) >= 2
    /\ last_op = [op |-> "push", ret |-> RetErr(seq_n)]

\* the slots that hold a value of a queue driven by one thread
HeldValues == {claimed[k] : k \in (Len(popped) + 1)..Len(claimed)}

\* C9: after Drop no slot is left holding a value: Drop has taken out
\* exactly the values still held.
C9_DropReleasesHeld ==
    dropped => /\ \A i \in 0..capacity : slot_state[i] # REGISTERED
               /\ released = HeldValues

\* C8: a queue of capacity 0 never accepts a value: every push returns Err
\* with its value, every pop returns None, next_head and tail stay 0.
C8_CapacityZero ==
    capacity = 0 =>
        /\ next_head = 0
        /\ tail = 0
        /\ \A p \in Producers :
              /\ push_ret[p].kind \in {"none", "Err"}
              /\ push_ret[p].kind = "Err" => push_ret[p].val = Data(p)
              /\ p_done[p] = 0
        /\ pop_ret.kind \in {"none", "None"}
        /\ claimed = <<>>
        /\ popped = <<>>

\* capacity 0: every producer has had a push rejected and a pop came back None
\* while a push was in progress
C8_Witness ==
    /\ capacity = 0
    /\ \A p \in Producers : push_ret[p] = RetErr(Item(p, 1)) \/ ppc[p] # "idle"
    /\ \E p \in Producers : push_ret[p] = RetErr(Item(p, 1))
    /\ \E p \in Producers : ppc[p] = "full"
    /\ pop_ret = RetNone

(***************************************************************************)
(* The unbounded queue, unbounded_mpsc/raw_mpsc.rs.                        *)
(*                                                                         *)
(* A thread that dereferences a pointer to a freed segment has undefined   *)
(* behaviour.  Two outcomes are modelled: the access goes through on the   *)
(* memory as the segment left it (the step is taken and uaf is set), or    *)
(* the access faults and the process is killed (AccessViolation).          *)
(***************************************************************************)
UProducersDone == \A p \in Producers : u_done[p] = ItemsPerThread

\* the value producer p is pushing (or will push next)
UData(p) == Item(p, u_done[p] + 1)

\* segment_push, unbounded_mpsc/raw_mpsc.rs:87-92: the segment is full when
\* the wrapped successor of the head that was read is the segment's tail
SegmentFull(curr_head, t) == Bounded(curr_head, SEGMENT_SIZE) = t

\* the pointer is null or points to freed memory
Dangling(a) == a = NullPtr \/ a \in freed

\* positions of push at which the next step dereferences the local segment
ProducerDerefs ==
    {"sp_load_head", "sp_load_tail", "sp_cas", "sp_set_cas", "sp_set_store",
     "alloc_link"}

\* positions of pop at which the next step dereferences the local head
ConsumerDerefs ==
    {"sp_store_tail", "sp_unset_cas", "sp_unset_read", "read_next"}

\* lines 38-40, 32-36: push is called, or is back at the top of its loop;
\* wait_for_seg_alloc spins while the flag is set
UWaitForSegAlloc(p) ==
    /\ ~aborted
    /\ \/ upc[p] = "idle" /\ u_done[p] < ItemsPerThread
       \/ upc[p] = "wait_alloc"
    /\ ~segment_allocation_pending
    /\ upc' = [upc EXCEPT ![p] = "load_tail"]
    /\ UNCHANGED <<head, u_tail, segment_allocation_pending, segments,
                   n_segments, freed, u_segment, u_curr_head, u_new_block,
                   u_done, ucpc, uc_head, uc_tail, uc_next, upop_ret, upopped,
                   udrained, uaf, aborted>>
    /\ UNCHANGED <<bvars, svars>>

\* lines 41-42: tail = self.tail.load; segment = &*tail
UPushLoadTail(p) ==
    /\ ~aborted
    /\ upc[p] = "load_tail"
    /\ u_segment' = [u_segment EXCEPT ![p] = u_tail]
    /\ upc' = [upc EXCEPT ![p] = "sp_load_head"]
    /\ UNCHANGED <<head, u_tail, segment_allocation_pending, segments,
                   n_segments, freed, u_curr_head, u_new_block, u_done, ucpc,
                   uc_head, uc_tail, uc_next, upop_ret, upopped, udrained, uaf,
                   aborted>>
    /\ UNCHANGED <<bvars, svars>>

\* segment_push, line 86: curr_head = segment.next_head.load
USegPushLoadHead(p) ==
    /\ ~aborted
    /\ upc[p] = "sp_load_head"
    /\ u_curr_head' = [u_curr_head EXCEPT ![p] = segments[u_segment[p]].next_head]
    /\ upc' = [upc EXCEPT ![p] = "sp_load_tail"]
    /\ uaf' = (uaf \/ Dangling(u_segment[p]))
    /\ UNCHANGED <<head, u_tail, segment_allocation_pending, segments,
                   n_segments, freed, u_segment, u_new_block, u_done, ucpc,
                   uc_head, uc_tail, uc_next, upop_ret, upopped, udrained,
                   aborted>>
    /\ UNCHANGED <<bvars, svars>>

\* segment_push, lines 87-92, 105-107: segment.tail.load != next_head;
\* Err(data) when the segment is full
USegPushLoadTail(p) ==
    /\ ~aborted
    /\ upc[p] = "sp_load_tail"
    /\ upc' = [upc EXCEPT ![p] =
                 IF SegmentFull(u_curr_head[p], segments[u_segment[p]].tail)
                 THEN "alloc_cas" ELSE "sp_cas"]
    /\ uaf' = (uaf \/ Dangling(u_segment[p]))
    /\ UNCHANGED <<head, u_tail, segment_allocation_pending, segments,
                   n_segments, freed, u_segment, u_curr_head, u_new_block,
                   u_done, ucpc, uc_head, uc_tail, uc_next, upop_ret, upopped,
                   udrained, aborted>>
    /\ UNCHANGED <<bvars, svars>>

\* segment_push, lines 93-104: next_head.compare_exchange(curr_head,
\* next_head); on failure backoff.wait(), which touches only the local backoff
USegPushCas(p) ==
    /\ ~aborted
    /\ upc[p] = "sp_cas"
    /\ IF segments[u_segment[p]].next_head = u_curr_head[p]
       THEN /\ segments' = [segments EXCEPT ![u_segment[p]].next_head =
                               Bounded(u_curr_head[p], SEGMENT_SIZE)]
            /\ upc' = [upc EXCEPT ![p] = "sp_set_cas"]
       ELSE /\ upc' = [upc EXCEPT ![p] = "sp_load_head"]
            /\ UNCHANGED segments
    /\ uaf' = (uaf \/ Dangling(u_segment[p]))
    /\ UNCHANGED <<head, u_tail, segment_allocation_pending, n_segments, freed,
                   u_segment, u_curr_head, u_new_block, u_done, ucpc, uc_head,
                   uc_tail, uc_next, upop_ret, upopped, udrained, aborted>>
    /\ UNCHANGED <<bvars, svars>>

\* line 100, slot.rs:44-49: the slot's compare_exchange(READY, RESERVED) and,
\* by its winner, unchecked_set's write of the payload (no other thread
\* writes the payload of a RESERVED slot); set returns Err when the CAS fails
\* and segment_push's unwrap panics
USegPushSetCas(p) ==
    /\ ~aborted
    /\ upc[p] = "sp_set_cas"
    /\ IF SetCasOk(segments[u_segment[p]].state[u_curr_head[p]])
       THEN /\ segments' = [segments EXCEPT
                               ![u_segment[p]].state[u_curr_head[p]] = RESERVED,
                               ![u_segment[p]].value[u_curr_head[p]] = UData(p)]
            /\ upc' = [upc EXCEPT ![p] = "sp_set_store"]
       ELSE /\ upc' = [upc EXCEPT ![p] = "panicked"]
            /\ UNCHANGED segments
    /\ uaf' = (uaf \/ Dangling(u_segment[p]))
    /\ UNCHANGED <<head, u_tail, segment_allocation_pending, n_segments, freed,
                   u_segment, u_curr_head, u_new_block, u_done, ucpc, uc_head,
                   uc_tail, uc_next, upop_ret, upopped, udrained, aborted>>
    /\ UNCHANGED <<bvars, svars>>

\* slot.rs:50-51: state.store(REGISTERED); lines 101, 44: push returns
USegPushSetStore(p) ==
    /\ ~aborted
    /\ upc[p] = "sp_set_store"
    /\ segments' = [segments EXCEPT
                       ![u_segment[p]].state[u_curr_head[p]] = REGISTERED]
    /\ u_done' = [u_done EXCEPT ![p] = @ + 1]
    /\ upc' = [upc EXCEPT ![p] = "idle"]
    /\ uaf' = (uaf \/ Dangling(u_segment[p]))
    /\ UNCHANGED <<head, u_tail, segment_allocation_pending, n_segments, freed,
                   u_segment, u_curr_head, u_new_block, ucpc, uc_head, uc_tail,
                   uc_next, upop_ret, upopped, udrained, aborted>>
    /\ UNCHANGED <<bvars, svars>>

\* a compare_exchange(false, true) that succeeds whatever the flag holds
AllocCasOkAlways(pending) == TRUE

\* line 47: compare_exchange(false, true) succeeds when the flag is false
AllocCasOk(pending) == pending = FALSE

\* lines 47-49, 55: segment_allocation_pending.compare_exchange(false, true);
\* the winner allocates new_block, a loser goes back to the top of the loop
UAllocCas(p) ==
    /\ ~aborted
    /\ upc[p] = "alloc_cas"
    /\ IF AllocCasOk(segment_allocation_pending)
       THEN /\ n_segments < MaxSegments
            /\ segment_allocation_pending' = TRUE
            /\ n_segments' = n_segments + 1
            /\ u_new_block' = [u_new_block EXCEPT ![p] = n_segments + 1]
            /\ upc' = [upc EXCEPT ![p] = "alloc_link"]
       ELSE /\ upc' = [upc EXCEPT ![p] = "wait_alloc"]
            /\ UNCHANGED <<segment_allocation_pending, n_segments, u_new_block>>
    /\ UNCHANGED <<head, u_tail, segments, freed, u_segment, u_curr_head,
                   u_done, ucpc, uc_head, uc_tail, uc_next, upop_ret, upopped,
                   udrained, uaf, aborted>>
    /\ UNCHANGED <<bvars, svars>>

\* line 50: segment.next.set(new_block)
UAllocLink(p) ==
    /\ ~aborted
    /\ upc[p] = "alloc_link"
    /\ segments' = [segments EXCEPT ![u_segment[p]].next = u_new_block[p]]
    /\ upc' = [upc EXCEPT ![p] = "alloc_store_tail"]
    /\ uaf' = (uaf \/ Dangling(u_segment[p]))
    /\ UNCHANGED <<head, u_tail, segment_allocation_pending, n_segments, freed,
                   u_segment, u_curr_head, u_new_block, u_done, ucpc, uc_head,
                   uc_tail, uc_next, upop_ret, upopped, udrained, aborted>>
    /\ UNCHANGED <<bvars, svars>>

\* lines 51-52: self.tail.store(new_block)
UAllocStoreTail(p) ==
    /\ ~aborted
    /\ upc[p] = "alloc_store_tail"
    /\ u_tail' = u_new_block[p]
    /\ upc' = [upc EXCEPT ![p] = "alloc_clear"]
    /\ UNCHANGED <<head, segment_allocation_pending, segments, n_segments,
                   freed, u_segment, u_curr_head, u_new_block, u_done, ucpc,
                   uc_head, uc_tail, uc_next, upop_ret, upopped, udrained, uaf,
                   aborted>>
    /\ UNCHANGED <<bvars, svars>>

\* line 53: segment_allocation_pending.store(false); back to the top of the loop
UAllocClear(p) ==
    /\ ~aborted
    /\ upc[p] = "alloc_clear"
    /\ segment_allocation_pending' = FALSE
    /\ upc' = [upc EXCEPT ![p] = "wait_alloc"]
    /\ UNCHANGED <<head, u_tail, segments, n_segments, freed, u_segment,
                   u_curr_head, u_new_block, u_done, ucpc, uc_head, uc_tail,
                   uc_next, upop_ret, upopped, udrained, uaf, aborted>>
    /\ UNCHANGED <<bvars, svars>>

(***************************************************************************)
(* RawMpsc::pop of the unbounded queue, lines 62-81, and segment_pop,      *)
(* lines 110-125.                                                          *)
(***************************************************************************)
\* lines 62-66: pop is called, or is back at the top of its loop with the
\* head it stored (only the consumer reads and writes self.head);
\* segment_pop, lines 111-113, 124: head = next_head.load; tail = tail.load
\* (only the consumer writes a segment's tail); None when they are equal
USegPopLoad ==
    /\ ~aborted
    /\ ucpc \in {"idle", "sp_load"}
    /\ head # NullPtr
    /\ uc_head' = head
    /\ uc_tail' = segments[head].tail
    /\ ucpc' = IF segments[head].next_head # segments[head].tail
               THEN "sp_store_tail" ELSE "check_tail"
    /\ upop_ret' = NoRet
    /\ uaf' = (uaf \/ Dangling(head))
    /\ UNCHANGED <<head, u_tail, segment_allocation_pending, segments,
                   n_segments, freed, upc, u_segment, u_curr_head, u_new_block,
                   u_done, uc_next, upopped, udrained, aborted>>
    /\ UNCHANGED <<bvars, svars>>

\* segment_pop, lines 117-119: segment.tail.store(next_tail), before the unset
USegPopStoreTail ==
    /\ ~aborted
    /\ ucpc = "sp_store_tail"
    /\ uc_head # NullPtr
    /\ segments' = [segments EXCEPT ![uc_head].tail =
                       Bounded(uc_tail, SEGMENT_SIZE)]
    /\ ucpc' = "sp_unset_cas"
    /\ uaf' = (uaf \/ Dangling(uc_head))
    /\ UNCHANGED <<head, u_tail, segment_allocation_pending, n_segments, freed,
                   upc, u_segment, u_curr_head, u_new_block, u_done, uc_head,
                   uc_tail, uc_next, upop_ret, upopped, udrained, aborted>>
    /\ UNCHANGED <<bvars, svars>>

\* line 122, slot.rs:68-71: the slot's compare_exchange(REGISTERED, READY);
\* unset returns Err when it fails and segment_pop's unwrap panics
USegPopUnsetCas ==
    /\ ~aborted
    /\ ucpc = "sp_unset_cas"
    /\ uc_head # NullPtr
    /\ IF UnsetCasOk(segments[uc_head].state[uc_tail])
       THEN /\ segments' = [segments EXCEPT ![uc_head].state[uc_tail] = READY]
            /\ ucpc' = "sp_unset_read"
            /\ UNCHANGED upop_ret
       ELSE /\ ucpc' = "panicked"
            /\ upop_ret' = RetPanic
            /\ UNCHANGED segments
    /\ uaf' = (uaf \/ Dangling(uc_head))
    /\ UNCHANGED <<head, u_tail, segment_allocation_pending, n_segments, freed,
                   upc, u_segment, u_curr_head, u_new_block, u_done, uc_head,
                   uc_tail, uc_next, upopped, udrained, aborted>>
    /\ UNCHANGED <<bvars, svars>>

\* slot.rs:73, 98-101: unchecked_unset reads the payload; lines 122, 68: pop
\* returns Some(data)
USegPopUnsetRead ==
    /\ ~aborted
    /\ ucpc = "sp_unset_read"
    /\ uc_head # NullPtr
    /\ upop_ret' = RetSome(segments[uc_head].value[uc_tail])
    /\ upopped' = Append(upopped, segments[uc_head].value[uc_tail])
    /\ ucpc' = "idle"
    /\ uaf' = (uaf \/ Dangling(uc_head))
    /\ UNCHANGED <<head, u_tail, segment_allocation_pending, segments,
                   n_segments, freed, upc, u_segment, u_curr_head, u_new_block,
                   u_done, uc_head, uc_tail, uc_next, udrained, aborted>>
    /\ UNCHANGED <<bvars, svars>>

\* lines 70, 77: self.tail.load != head; None when the head segment is also
\* the tail segment
UPopCheckTail ==
    /\ ~aborted
    /\ ucpc = "check_tail"
    /\ IF u_tail # uc_head
       THEN /\ ucpc' = "read_next"
            /\ UNCHANGED <<upop_ret, udrained>>
       ELSE /\ ucpc' = "idle"
            /\ upop_ret' = RetNone
            /\ udrained' = (udrained \/ UProducersDone)
    /\ UNCHANGED <<head, u_tail, segment_allocation_pending, segments,
                   n_segments, freed, upc, u_segment, u_curr_head, u_new_block,
                   u_done, uc_head, uc_tail, uc_next, upopped, uaf, aborted>>
    /\ UNCHANGED <<bvars, svars>>

\* lines 71-73: next = segment.next.get(); self.head.store(next)
UPopReadNext ==
    /\ ~aborted
    /\ ucpc = "read_next"
    /\ uc_head # NullPtr
    /\ uc_next' = segments[uc_head].next
    /\ head' = segments[uc_head].next
    /\ ucpc' = "free"
    /\ uaf' = (uaf \/ Dangling(uc_head))
    /\ UNCHANGED <<u_tail, segment_allocation_pending, segments, n_segments,
                   freed, upc, u_segment, u_curr_head, u_new_block, u_done,
                   uc_head, uc_tail, upop_ret, upopped, udrained, aborted>>
    /\ UNCHANGED <<bvars, svars>>

\* lines 74-75: Box::from_raw(head) is dropped, which frees the segment;
\* continue
UPopFree ==
    /\ ~aborted
    /\ ucpc = "free"
    /\ freed' = freed \cup {uc_head}
    /\ uaf' = (uaf \/ Dangling(uc_head))
    /\ ucpc' = "sp_load"
    /\ UNCHANGED <<head, u_tail, segment_allocation_pending, segments,
                   n_segments, upc, u_segment, u_curr_head, u_new_block,
                   u_done, uc_head, uc_tail, uc_next, upop_ret, upopped,
                   udrained, aborted>>
    /\ UNCHANGED <<bvars, svars>>

\* a dereference of a null or freed segment pointer faults: the process dies
AccessViolation ==
    /\ ~aborted
    /\ \/ \E p \in Producers :
             upc[p] \in ProducerDerefs /\ Dangling(u_segment[p])
       \/ ucpc \in ConsumerDerefs /\ Dangling(uc_head)
       \/ ucpc = "sp_load" /\ Dangling(head)
    /\ aborted' = TRUE
    /\ uaf' = TRUE
    /\ UNCHANGED <<head, u_tail, segment_allocation_pending, segments,
                   n_segments, freed, upc, u_segment, u_curr_head, u_new_block,
                   u_done, ucpc, uc_head, uc_tail, uc_next, upop_ret, upopped,
                   udrained>>
    /\ UNCHANGED <<bvars, svars>>

UProducerStep(p) ==
    \/ UWaitForSegAlloc(p)
    \/ UPushLoadTail(p)
    \/ USegPushLoadHead(p)
    \/ USegPushLoadTail(p)
    \/ USegPushCas(p)
    \/ USegPushSetCas(p)
    \/ USegPushSetStore(p)
    \/ UAllocCas(p)
    \/ UAllocLink(p)
    \/ UAllocStoreTail(p)
    \/ UAllocClear(p)

UConsumerStep ==
    \/ USegPopLoad
    \/ USegPopStoreTail
    \/ USegPopUnsetCas
    \/ USegPopUnsetRead
    \/ UPopCheckTail
    \/ UPopReadNext
    \/ UPopFree

UNext ==
    \/ \E p \in Producers : UProducerStep(p)
    \/ UConsumerStep
    \/ AccessViolation

\* N producers and one consumer on one unbounded queue, any interleaving
SpecUnbounded == UInit /\ [][UNext]_vars

\* the threads are scheduled fairly: a producer inside or about to make a
\* push call takes its next step, and so does the consumer inside a pop call
\* (the consumer need not call pop at all)
SpecUnboundedFair ==
    /\ SpecUnbounded
    /\ \A p \in Producers : WF_vars(UProducerStep(p))
    /\ WF_vars(UConsumerStep /\ ucpc # "idle")

(***************************************************************************)
(* Histories of the unbounded queue.                                       *)
(***************************************************************************)

\* the segments reached from a by following at most k next links
RECURSIVE ChainFrom(_, _)
ChainFrom(a, k) ==
    IF a = NullPtr \/ k = 0 THEN {}
    ELSE {a} \cup ChainFrom(segments[a].next, k - 1)

\* the segments of the queue: those the consumer will reach from head
Chain == ChainFrom(head, MaxSegments)

\* C2: once every push has returned and the consumer has popped until pop
\* returned None, every pushed value has been popped exactly once.
C2_UnboundedNoLossNoDuplication ==
    udrained => /\ SeqToSet(upopped) = AllItems
                /\ NoDuplicates(upopped)

\* C7: every push call eventually returns, and when it returns its value is
\* stored in a segment of the queue (one that is not freed and that the
\* consumer reaches from head).
C7_PushEventuallyStores ==
    /\ \A p \in Producers : <>(u_done[p] = ItemsPerThread)
    /\ [][\A p \in Producers :
             u_done'[p] = u_done[p] + 1 =>
                 u_segment[p] \in Chain' /\ u_segment[p] \notin freed']_vars

\* C10: a segment is freed at most once, only when it holds no unpopped
\* value and no producer can still push into it, and no thread reads or
\* writes a segment after it has been freed.
C10_SegmentReclamation ==
    /\ ~uaf
    /\ \A a \in freed :
          \A i \in 0..(SEGMENT_SIZE - 1) : segments[a].state[i] # REGISTERED
    /\ \A p \in Producers :
          upc[p] \in ProducerDerefs => u_segment[p] \notin freed

(***************************************************************************)
(* One thread driving the unbounded queue: each call runs from its first   *)
(* line to its return with no other thread in between, so every CAS        *)
(* succeeds and segment_allocation_pending is always found false.          *)
(***************************************************************************)
\* segment_push, raw_mpsc.rs:83-109 with slot.rs:43-55, on the segment seg
SegmentPushOutcome(seg, data) ==
    IF SegmentFull(seg.next_head, seg.tail)
    THEN [seg |-> seg, ret |-> RetErr(data)]
    ELSE IF SetCasOk(seg.state[seg.next_head])
    THEN [seg |-> [seg EXCEPT !.next_head = Bounded(seg.next_head, SEGMENT_SIZE),
                              !.state[seg.next_head] = REGISTERED,
                              !.value[seg.next_head] = data],
          ret |-> RetOk]
    ELSE [seg |-> [seg EXCEPT !.next_head = Bounded(seg.next_head, SEGMENT_SIZE)],
          ret |-> RetPanic]

\* segment_pop, raw_mpsc.rs:110-125 with slot.rs:67-77: the tail is stored
\* before the slot is unset
SegmentPopOutcome(seg) ==
    IF seg.next_head # seg.tail
    THEN IF UnsetCasOk(seg.state[seg.tail])
         THEN [seg |-> [seg EXCEPT !.tail = Bounded(seg.tail, SEGMENT_SIZE),
                                   !.state[seg.tail] = READY],
               ret |-> RetSome(seg.value[seg.tail])]
         ELSE [seg |-> [seg EXCEPT !.tail = Bounded(seg.tail, SEGMENT_SIZE)],
               ret |-> RetPanic]
    ELSE [seg |-> seg, ret |-> RetNone]

\* push, raw_mpsc.rs:38-60: try the tail segment; when it is full allocate a
\* new segment at the next address, link it, make it the tail and try again
RECURSIVE USeqPushOutcome(_, _, _, _)
USeqPushOutcome(heap, n, tl, data) ==
    LET out == SegmentPushOutcome(heap[tl], data)
    IN IF out.ret.kind # "Err"
       THEN [segments |-> [heap EXCEPT ![tl] = out.seg], n_segments |-> n,
             u_tail |-> tl, ret |-> out.ret]
       ELSE USeqPushOutcome([heap EXCEPT ![tl].next = n + 1], n + 1, n + 1, data)

\* pop, raw_mpsc.rs:70: the drained head segment is not the tail segment
HasNextSegmentNever(tl, hd) == FALSE
HasNextSegment(tl, hd) == tl # hd

\* pop, raw_mpsc.rs:62-81: pop from the head segment; when it is empty and is
\* not the tail, move head to its next link, free it and try again
RECURSIVE USeqPopOutcome(_, _, _, _)
USeqPopOutcome(heap, hd, tl, fr) ==
    LET out == SegmentPopOutcome(heap[hd])
    IN IF out.ret.kind # "None"
       THEN [segments |-> [heap EXCEPT ![hd] = out.seg], head |-> hd,
             freed |-> fr, ret |-> out.ret]
       ELSE IF HasNextSegment(tl, hd)
       THEN USeqPopOutcome(heap, heap[hd].next, tl, fr \cup {hd})
       ELSE [segments |-> heap, head |-> hd, freed |-> fr, ret |-> RetNone]

\* push needs a new segment: the tail segment is full
PushAllocates == SegmentFull(segments[u_tail].next_head, segments[u_tail].tail)

USeqPush ==
    /\ seq_n < MaxSeqPushes
    /\ PushAllocates => n_segments < MaxSegments
    /\ LET out == USeqPushOutcome(segments, n_segments, u_tail, seq_n + 1)
       IN /\ segments' = out.segments
          /\ n_segments' = out.n_segments
          /\ u_tail' = out.u_tail
          /\ last_op' = [op |-> "push", ret |-> out.ret]
    /\ seq_n' = seq_n + 1
    /\ UNCHANGED <<released, first_pop_at, kvars>>
    /\ UNCHANGED <<head, segment_allocation_pending, freed, upc, u_segment,
                   u_curr_head, u_new_block, u_done, ucpc, uc_head, uc_tail,
                   uc_next, upop_ret, upopped, udrained, uaf, aborted>>
    /\ UNCHANGED bvars

USeqPop ==
    /\ LET out == USeqPopOutcome(segments, head, u_tail, freed)
       IN /\ segments' = out.segments
          /\ head' = out.head
          /\ freed' = out.freed
          /\ last_op' = [op |-> "pop", ret |-> out.ret]
          /\ upopped' = IF out.ret.kind = "Some"
                        THEN Append(upopped, out.ret.val) ELSE upopped
    /\ first_pop_at' = IF first_pop_at = -1 THEN seq_n ELSE first_pop_at
    /\ UNCHANGED <<seq_n, released, kvars>>
    /\ UNCHANGED <<u_tail, segment_allocation_pending, n_segments, upc,
                   u_segment, u_curr_head, u_new_block, u_done, ucpc, uc_head,
                   uc_tail, uc_next, upop_ret, udrained, uaf, aborted>>
    /\ UNCHANGED bvars

USNext == USeqPush \/ USeqPop

\* one thread making any sequence of push and pop calls
SpecUnboundedSeq == UInit /\ [][USNext]_vars

\* C5: one thread drives the unbounded queue; every push call returns with
\* its value stored, however many segments that takes, and when all the
\* pushes were made before the first pop, each pop of the drain returns the
\* next value in push order, also across a segment boundary, and the pop
\* after the last value returns None.
C5_UnboundedGrowthFifo ==
    [][/\ (last_op'.op = "push" /\ seq_n' = seq_n + 1) => last_op'.ret = RetOk
       /\ (last_op'.op = "pop" /\ first_pop_at' = seq_n) =>
              last_op'.ret = IF Len(upopped) < seq_n
                             THEN RetSome(Len(upopped) + 1) ELSE RetNone]_vars

\* more than a segment's worth was pushed without a pop, then the drain
\* crossed a segment boundary, returned everything and ended with None
C5_Witness ==
    /\ seq_n > SEGMENT_SIZE
    /\ first_pop_at = seq_n
    /\ Len(upopped) = seq_n
    /\ freed # {}
    /\ last_op = [op |-> "pop", ret |-> RetNone]

(***************************************************************************)
(* The contention counter of the bounded queue.                            *)
(***************************************************************************)
\* producer p is inside push between reg_wait (line 57) and de_reg (lines
\* 73, 79)
InRetryLoop(p) == ppc[p] \in {"load_head", "load_tail", "cas", "de_reg", "full"}

\* C11: every push registers once and deregisters once on each way out
\* (success and queue-full), so active_threads always equals the number of
\* producers inside push's retry loop and is 0 when no push is in progress.
C11_ActiveThreadsCount ==
    /\ active_threads = Cardinality({p \in Producers : InRetryLoop(p)})
    /\ (\A p \in Producers : ppc[p] = "idle") => active_threads = 0

\* one push has left through the queue-full exit, another through the
\* success exit, and no producer is registered any more
C11_Witness ==
    /\ active_threads = 0
    /\ \A p \in Producers : ppc[p] = "idle"
    /\ \E p \in Producers : push_ret[p].kind = "Err"
    /\ \E p \in Producers : push_ret[p] = RetOk

(***************************************************************************)
(* u32 arithmetic, as two 16-bit halves so that no intermediate value      *)
(* exceeds the width.                                                      *)
(***************************************************************************)
HalfMod == 2 ^ 16
U32(n) == [hi |-> (n \div HalfMod) % HalfMod, lo |-> n % HalfMod]

\* x << 1 on a u32: the top bit is shifted out
Shl1(x) == [hi |-> (2 * x.hi + x.lo \div (HalfMod \div 2)) % HalfMod,
            lo |-> (2 * x.lo) % HalfMod]

\* x << k on a u32, for a shift amount k below the width
RECURSIVE Shl(_, _)
Shl(x, k) == IF k = 0 THEN x ELSE Shl(Shl1(x), k - 1)

\* Ord::min of two u32
LessU32(x, y) == x.hi < y.hi \/ (x.hi = y.hi /\ x.lo < y.lo)
MinU32(x, y) == IF LessU32(y, x) THEN y ELSE x

\* the value of a u32 that is known to be below 2^31
ValU32(x) == x.hi * HalfMod + x.lo

(***************************************************************************)
(* LocalBackoff, backoff/local_backoff.rs.                                 *)
(***************************************************************************)
MAX_SPIN == 65536

\* wait, local_backoff.rs:39: new_spin = (curr_spin << 1).min(MAX_SPIN)
NewSpin(curr_spin) == ValU32(MinU32(Shl(U32(curr_spin), 1), U32(MAX_SPIN)))

\* wait, local_backoff.rs:35-47: store the next count, spin for the current
LWait ==
    /\ l_waits < MaxWaits
    /\ spins' = NewSpin(spins)
    /\ l_spun' = spins
    /\ l_waits' = l_waits + 1
    /\ UNCHANGED <<l_fresh, g_spin, hvars>>
    /\ UNCHANGED <<seq_n, last_op, released, first_pop_at>>
    /\ UNCHANGED <<bvars, uvars>>

\* reset, local_backoff.rs:57-59: spins = 1
LReset ==
    /\ spins' = 1
    /\ l_fresh' = FALSE
    /\ UNCHANGED <<l_spun, l_waits, g_spin, hvars>>
    /\ UNCHANGED <<seq_n, last_op, released, first_pop_at>>
    /\ UNCHANGED <<bvars, uvars>>

LNext == LWait \/ LReset

\* one thread calling wait and reset on a LocalBackoff made by new()
SpecLocalBackoff == UInit /\ [][LNext]_vars

\* C12: each wait() spins for the count the previous call left and then
\* doubles the count, capped at MAX_SPIN; and for a backoff made by new()
\* the counts of successive wait() calls grow until they reach the cap.
C12_LocalBackoffGrows ==
    [][l_waits' = l_waits + 1 =>
          /\ l_spun' = spins
          /\ spins' = (IF 2 * spins < MAX_SPIN THEN 2 * spins ELSE MAX_SPIN)
          /\ (l_fresh /\ spins < MAX_SPIN) => spins' > spins]_vars

(***************************************************************************)
(* GlobalBackoff, backoff.rs.  Threads call reg_wait, wait and de_reg on   *)
(* one GlobalBackoff, each de_reg after a reg_wait of its own.             *)
(***************************************************************************)
MAX_WAIT_SPIN == 262144
MIN_WAIT_SPIN == 32
U32Bits == 32

Spun(n) == [kind |-> "spun", iters |-> n]
ShiftPanic == [kind |-> "panic", iters |-> 0]

\* wait, backoff.rs:79, for a shift amount below the width
WaitIters(a) ==
    ValU32(MinU32(Shl(U32(MIN_WAIT_SPIN), a), U32(MAX_WAIT_SPIN)))

\* wait, backoff.rs:79: MIN_WAIT_SPIN << active_threads with a shift amount
\* of the width or more panics in a build with overflow checks and uses
\* the amount modulo the width in a build without them
WaitOutcomes(a) ==
    IF a < U32Bits THEN {Spun(WaitIters(a))}
    ELSE {ShiftPanic, Spun(WaitIters(a % U32Bits))}

\* reg_wait, backoff.rs:56-59: fetch_add(1), then spin for the old value
GRegWait ==
    /\ g_spin.kind # "panic"
    /\ active_threads' = RegWait(active_threads)
    /\ g_spin' = Spun(ValU32(U32(active_threads)))
    /\ UNCHANGED <<spins, l_spun, l_waits, l_fresh, hvars>>
    /\ UNCHANGED <<seq_n, last_op, released, first_pop_at>>
    /\ UNCHANGED <<capacity, next_head, tail, slot_state, slot_value, dropped,
                   ppc, p_curr_head, p_done, push_ret, cpc, c_tail, c_data,
                   pop_ret, claimed, popped, drained>>
    /\ UNCHANGED uvars

\* de_reg, backoff.rs:66-68, by a thread that is registered
GDeReg ==
    /\ g_spin.kind # "panic"
    /\ active_threads > 0
    /\ active_threads' = DeReg(active_threads)
    /\ g_spin' = NoSpin
    /\ UNCHANGED <<spins, l_spun, l_waits, l_fresh, hvars>>
    /\ UNCHANGED <<seq_n, last_op, released, first_pop_at>>
    /\ UNCHANGED <<capacity, next_head, tail, slot_state, slot_value, dropped,
                   ppc, p_curr_head, p_done, push_ret, cpc, c_tail, c_data,
                   pop_ret, claimed, popped, drained>>
    /\ UNCHANGED uvars

\* wait, backoff.rs:78-81
GWait ==
    /\ g_spin.kind # "panic"
    /\ g_spin' \in WaitOutcomes(active_threads)
    /\ last_op' = [op |-> "wait", ret |-> NoRet]
    /\ UNCHANGED <<spins, l_spun, l_waits, l_fresh, hvars>>
    /\ UNCHANGED <<seq_n, released, first_pop_at>>
    /\ UNCHANGED bvars
    /\ UNCHANGED uvars

GNext == GRegWait \/ GDeReg \/ GWait

SpecGlobalBackoff == UInit /\ [][GNext]_vars

\* the least shift at which MIN_WAIT_SPIN << k reaches MAX_WAIT_SPIN
SaturatingShift ==
    CHOOSE k \in 0..U32Bits :
        /\ MIN_WAIT_SPIN * 2 ^ k >= MAX_WAIT_SPIN
        /\ \A j \in 0..(k - 1) : MIN_WAIT_SPIN * 2 ^ j < MAX_WAIT_SPIN

\* min(MIN_WAIT_SPIN * 2^a, MAX_WAIT_SPIN) over the integers
ExactSpin(a) ==
    IF a >= SaturatingShift THEN MAX_WAIT_SPIN ELSE MIN_WAIT_SPIN * 2 ^ a

\* C13: wait spins for exactly min(MIN_WAIT_SPIN << active_threads,
\* MAX_WAIT_SPIN) iterations whatever active_threads is: the count lies
\* between MIN_WAIT_SPIN and MAX_WAIT_SPIN and is never below the count for a
\* smaller active_threads.
C13_GlobalWaitSpin ==
    [][GWait =>
          /\ g_spin' = Spun(ExactSpin(active_threads))
          /\ g_spin'.iters >= MIN_WAIT_SPIN
          /\ g_spin'.iters <= MAX_WAIT_SPIN
          /\ \A b \in 0..active_threads : \A o \in WaitOutcomes(b) :
                 o.kind = "spun" /\ o.iters <= g_spin'.iters]_vars

(***************************************************************************)
(* Occupancy and slot ownership of the bounded queue under concurrency.    *)
(***************************************************************************)
\* C14: with N producers and one consumer, the number of values held
\* (claimed by a successful next_head CAS and not yet popped) is at most the
\* capacity, and it is zero exactly when next_head = tail.
C14_HeldAtMostCapacity ==
    /\ Held <= capacity
    /\ (Held = 0) <=> (next_head = tail)

\* C15: a producer that has won the next_head CAS for an index always finds
\* that slot READY, so slots.set succeeds and push's unwrap never panics.
C15_SetNeverPanics ==
    \A p \in Producers :
        /\ ppc[p] # "panicked"
        /\ ppc[p] = "set_cas" => slot_state[p_curr_head[p]] = READY

\* C16: pop returns None only when it read tail equal to next_head; once it
\* has read them different it takes the value at tail and returns it, so a
\* producer part-way through a push never makes pop come back empty.
C16_PopEmptyOnlyWhenCursorsEqual ==
    [][(cpc # "idle" /\ cpc' = "idle" /\ pop_ret' = RetNone) =>
          (cpc = "load_head" /\ c_tail = next_head)]_vars

\* C17: in every reachable state next_head and tail are in 0..capacity, and
\* so is every slot index push and pop use: all are inside the array of
\* capacity + 1 slots.
C17_CursorsInRange ==
    /\ next_head \in 0..capacity
    /\ tail \in 0..capacity
    /\ \A p \in Producers : p_curr_head[p] \in 0..capacity
    /\ c_tail \in 0..capacity

\* next_head has gone once around the ring and tail stands on the last slot
C17_Witness ==
    /\ capacity >= 1
    /\ Len(claimed) = capacity + 1
    /\ next_head = 0
    /\ tail = capacity

(***************************************************************************)
(* The cursors of a ring of capacity + 1 slots, advanced as push advances  *)
(* next_head (raw_mpsc.rs:60-65) and pop advances tail (raw_mpsc.rs:98-102;*)
(* segment_push and segment_pop do the same with SEGMENT_SIZE slots).      *)
(***************************************************************************)
WInit == capacity \in 0..(MaxRing - 1) /\ BFields /\ UFields /\ KFields

AdvanceHead ==
    /\ next_head' = Bounded(next_head, SlotCount)
    /\ last_op' = [op |-> "advance_head", ret |-> NoRet]
    /\ UNCHANGED <<capacity, tail, active_threads, slot_state, slot_value,
                   dropped, ppc, p_curr_head, p_done, push_ret, cpc, c_tail,
                   c_data, pop_ret, claimed, popped, drained>>
    /\ UNCHANGED <<seq_n, released, first_pop_at, kvars>>
    /\ UNCHANGED uvars

AdvanceTail ==
    /\ tail' = Bounded(tail, SlotCount)
    /\ last_op' = [op |-> "advance_tail", ret |-> NoRet]
    /\ UNCHANGED <<capacity, next_head, active_threads, slot_state, slot_value,
                   dropped, ppc, p_curr_head, p_done, push_ret, cpc, c_tail,
                   c_data, pop_ret, claimed, popped, drained>>
    /\ UNCHANGED <<seq_n, released, first_pop_at, kvars>>
    /\ UNCHANGED uvars

WNext == AdvanceHead \/ AdvanceTail

SpecWrap == WInit /\ [][WNext]_vars

\* C18: the branchless wraparound (i + 1) AND (all-ones if i + 1 < n, else 0)
\* equals (i + 1) mod n for every index i in 0..n-1 of an array of n >= 1
\* slots.
C18_WrapIsModulo ==
    [][/\ AdvanceHead => next_head' = (next_head + 1) % SlotCount
       /\ AdvanceTail => tail' = (tail + 1) % SlotCount]_vars

\* on the longest ring, next_head has just stepped from the last index back
\* to 0 and tail stands on the last index
C18_Witness ==
    /\ capacity = MaxRing - 1
    /\ last_op.op = "advance_head"
    /\ next_head = 0
    /\ tail = capacity

(***************************************************************************)
(* One Slot (slot.rs), slot 0 of the array, on which several threads call  *)
(* set and one thread calls unset, in any interleaving.                    *)
(***************************************************************************)
\* a Slot as the tests of slot.rs build it: READY, payload uninitialised
SlotInit == capacity = 0 /\ BFields /\ UFields /\ KFields

\* Ok(value) of unset, slot.rs:73
RetOkVal(v) == [kind |-> "Ok", val |-> v]

\* slot.rs:43-47, 52-54: set is called; compare_exchange(READY, RESERVED);
\* Err(data) when it fails
SlotSetCas(p) ==
    /\ ppc[p] = "idle"
    /\ p_done[p] < ItemsPerThread
    /\ IF SetCasOk(slot_state[0])
       THEN /\ slot_state' = [slot_state EXCEPT ![0] = RESERVED]
            /\ ppc' = [ppc EXCEPT ![p] = "set_write"]
            /\ push_ret' = [push_ret EXCEPT ![p] = NoRet]
       ELSE /\ push_ret' = [push_ret EXCEPT ![p] = RetErr(Data(p))]
            /\ UNCHANGED <<slot_state, ppc>>
    /\ UNCHANGED <<capacity, next_head, tail, active_threads, slot_value,
                   dropped, p_curr_head, p_done, cpc, c_tail, c_data, pop_ret,
                   claimed, popped, drained>>
    /\ UNCHANGED svars
    /\ UNCHANGED uvars

\* slot.rs:67-71, 74-76: unset is called; compare_exchange(REGISTERED,
\* READY); Err(()) when it fails
SlotUnsetCas ==
    /\ cpc = "idle"
    /\ IF UnsetCasOk(slot_state[0])
       THEN /\ slot_state' = [slot_state EXCEPT ![0] = READY]
            /\ cpc' = "unset_read"
            /\ pop_ret' = NoRet
            /\ h_registered' = slot_value[0]
       ELSE /\ pop_ret' = RetErr(0)
            /\ UNCHANGED <<slot_state, cpc, h_registered>>
    /\ UNCHANGED <<capacity, next_head, tail, active_threads, slot_value,
                   dropped, ppc, p_curr_head, p_done, push_ret, c_tail, c_data,
                   claimed, popped, drained>>
    /\ UNCHANGED <<seq_n, last_op, released, first_pop_at, spins, l_spun,
                   l_waits, l_fresh, g_spin, h_returned>>
    /\ UNCHANGED uvars

\* slot.rs:73, 98-101: unchecked_unset reads the payload; Ok(value)
SlotUnsetRead ==
    /\ cpc = "unset_read"
    /\ pop_ret' = RetOkVal(slot_value[0])
    /\ cpc' = "idle"
    /\ h_returned' = [h_returned EXCEPT ![slot_value[0]] = @ + 1]
    /\ UNCHANGED <<capacity, next_head, tail, active_threads, slot_state,
                   slot_value, dropped, ppc, p_curr_head, p_done, push_ret,
                   c_tail, c_data, claimed, popped, drained>>
    /\ UNCHANGED <<seq_n, last_op, released, first_pop_at, spins, l_spun,
                   l_waits, l_fresh, g_spin, h_registered>>
    /\ UNCHANGED uvars

SlotNext ==
    \/ \E p \in Producers :
          \/ SlotSetCas(p)
          \/ PushSetWrite(p)
          \/ PushSetStore(p)
    \/ SlotUnsetCas
    \/ SlotUnsetRead

SpecSlot == SlotInit /\ [][SlotNext]_vars

\* the threads between set's CAS and its REGISTERED store
SetWinners == {p \in Producers : ppc[p] \in {"set_write", "set_store"}}

\* C19: of the threads calling set on a READY slot exactly one gets Ok; a
\* call that loses returns Err with its own value and changes neither the
\* payload nor the state; at most one thread is ever between the
\* READY -> RESERVED CAS and the REGISTERED store.
C19_SetExclusive ==
    /\ Cardinality(SetWinners) <= 1
    /\ (SetWinners # {}) <=> (slot_state[0] = RESERVED)
    /\ [][/\ Cardinality(SetWinners') <= 1
          /\ (SetWinners' # {}) <=> (slot_state'[0] = RESERVED)]_vars
    /\ [][\A p \in Producers :
            (SlotSetCas(p) /\ slot_state[0] = READY) =>
                SetWinners' = {p}]_vars
    /\ [][\A p \in Producers :
            (SlotSetCas(p) /\ slot_state[0] # READY) =>
                /\ push_ret'[p] = RetErr(Data(p))
                /\ slot_state' = slot_state
                /\ slot_value' = slot_value]_vars

\* one thread holds the slot RESERVED and another's set has come back with
\* Err carrying its own value
C19_Witness ==
    \E p, q \in Producers :
        /\ p # q
        /\ ppc[p] = "set_store"
        /\ slot_state[0] = RESERVED
        /\ ppc[q] = "idle"
        /\ push_ret[q] = RetErr(Data(q))

\* the transitions of a slot's state the CAS guards permit
SlotCycle == {<<READY, RESERVED>>, <<RESERVED, REGISTERED>>, <<REGISTERED, READY>>}

\* C20: under any interleaving of set and unset calls on one slot, the state
\* is always READY, RESERVED or REGISTERED and changes only along
\* READY -> RESERVED -> REGISTERED -> READY.
C20_SlotStateCycle ==
    /\ slot_state[0] \in {READY, RESERVED, REGISTERED}
    /\ [][slot_state'[0] \in {READY, RESERVED, REGISTERED}]_vars
    /\ [][slot_state'[0] # slot_state[0] =>
             <<slot_state[0], slot_state'[0]>> \in SlotCycle]_vars

\* the slot has gone once around the cycle and a second set has reserved it
\* while an unset call has just failed on it
C20_Witness ==
    /\ \E p \in Producers : p_done[p] >= 1
    /\ slot_state[0] = RESERVED
    /\ pop_ret = RetErr(0)

\* the values whose set call has stored REGISTERED and returned Ok
SetDone ==
    UNION {{Item(p, i) : i \in 1..p_done[p]} : p \in Producers}

\* C21: unset on a slot that is not REGISTERED (READY, or RESERVED while a
\* set is writing) returns Err(()) and changes neither state nor payload;
\* and the value an unset returns is one whose set has already stored
\* REGISTERED.
C21_UnsetNeedsRegistered ==
    /\ [][(SlotUnsetCas /\ slot_state[0] # REGISTERED) =>
             /\ pop_ret' = RetErr(0)
             /\ slot_state' = slot_state
             /\ slot_value' = slot_value]_vars
    /\ [][SlotUnsetRead => pop_ret'.val \in SetDone]_vars

\* C22: a successful unset leaves the slot READY and returns exactly the
\* value written by the set that made the slot REGISTERED, also when another
\* set runs on the slot at the same time; no value is returned by two
\* unsets, and every value whose set returned Ok has been returned or is
\* the one the slot holds or the one the unset in progress is returning.
C22_SlotRoundTrip ==
    /\ [][(SlotUnsetCas /\ slot_state[0] = REGISTERED) =>
             slot_state'[0] = READY]_vars
    /\ [][SlotUnsetRead => pop_ret'.val = h_registered]_vars
    /\ [][\A v \in AllItems : h_returned'[v] <= 1]_vars
    /\ [][\A v \in SetDone' :
             \/ h_returned'[v] = 1
             \/ slot_state'[0] = REGISTERED /\ slot_value'[0] = v
             \/ cpc' = "unset_read" /\ h_registered' = v]_vars

(***************************************************************************)
(* Segment allocation and the chain of segments of the unbounded queue.    *)
(***************************************************************************)
\* the producers between winning the segment_allocation_pending CAS (line
\* 47) and storing false again (line 53)
Allocating ==
    {p \in Producers : upc[p] \in {"alloc_link", "alloc_store_tail", "alloc_clear"}}

\* C23: at most one producer is mid-allocation, and
\* segment_allocation_pending is true exactly while some producer is.
C23_OneAllocator ==
    /\ Cardinality(Allocating) <= 1
    /\ segment_allocation_pending <=> (Allocating # {})

\* one producer is mid-allocation, has linked its new segment, and another
\* producer spins in wait_for_seg_alloc
C23_Witness ==
    \E p, q \in Producers :
        /\ upc[p] = "alloc_store_tail"
        /\ upc[q] = "wait_alloc"
        /\ segment_allocation_pending

\* C24: each segment's next link is written at most once, and only on the
\* segment that is the queue's current tail when it is written: every
\* execution of line 50 finds the link of its segment still null and its
\* segment equal to self.tail.
C24_LinkOnceOnTail ==
    [][\A p \in Producers :
          UAllocLink(p) =>
              /\ segments[u_segment[p]].next = NullPtr
              /\ u_segment[p] = u_tail]_vars

\* head and tail point to allocated segments that are not freed, and the
\* tail segment is reached from the head segment by following next links
ChainIntact ==
    /\ ~Dangling(head)
    /\ ~Dangling(u_tail)
    /\ u_tail \in Chain

\* C25: in every reachable state head and tail point to allocated, not yet
\* freed segments and the tail segment is reachable from the head segment
\* through next links; the consumer never frees the only segment and never
\* stores a null next link into head.
C25_ChainIntegrity ==
    /\ ChainIntact
    /\ [][ChainIntact']_vars
    /\ [][UPopFree => Cardinality((1..n_segments) \ freed) > 1]_vars
    /\ [][UPopReadNext => head' # NullPtr]_vars

\* C26: whenever segment_pop reads a segment's next_head different from its
\* tail, the slot at tail is REGISTERED, so slot.unset() succeeds and its
\* unwrap does not panic, whatever the producers are doing.
C26_SegmentPopUnsetSucceeds ==
    /\ [][(USegPopLoad /\ ucpc' = "sp_store_tail") =>
             segments[head].state[segments[head].tail] = REGISTERED]_vars
    /\ [][USegPopUnsetCas => upop_ret' # RetPanic]_vars

(***************************************************************************)
(* Order of the values of the bounded queue.                               *)
(***************************************************************************)
\* the values of producer p in the sequence s, in the order of s
OfProducer(s, p) ==
    SelectSeq(s, LAMBDA v : v \in {Item(p, i) : i \in 1..ItemsPerThread})

\* C27: the values are popped in the order in which their pushes claimed
\* slots (the order of the successful next_head CASes), so the popped
\* sequence is a prefix of the claimed one; in particular each producer's
\* values are popped in the order that producer pushed them.
C27_PopOrderIsClaimOrder ==
    /\ Len(popped) <= Len(claimed)
    /\ popped = SubSeq(claimed, 1, Len(popped))
    /\ \A p \in Producers :
          OfProducer(popped, p) = [k \in 1..Len(OfProducer(popped, p)) |-> Item(p, k)]

====
